---- MODULE Spec2Model ----
(***************************************************************************)
(* Text-File-Analyzer: the word store (hashtable.c), the analysis engine   *)
(* (analyzer.c) and the control flow of main (main.c).                     *)
(*                                                                         *)
(* Bytes are the integers 0..255, a C string is the sequence of its bytes  *)
(* (without the terminator), a file is the sequence of bytes fgetc yields. *)
(* unsigned long is 64 bits and unsigned int 32 bits (LP64); both are kept *)
(* as little-endian sequences of 16-bit limbs, so every intermediate value *)
(* stays far below 2^31. The int counters (word_count, line_count, the      *)
(* frequency slots, a node's count) and the long long char_count are plain *)
(* integers: no modelled input comes near 2^31 bytes, so none of them      *)
(* reaches the end of its range.                                           *)
(***************************************************************************)
EXTENDS Integers, Sequences, FiniteSets, TLC

\* ------------------------------------------------------------------ bounds

\* Longest generated input file (files of every length 0..MaxFileLen over FileBytes).
MaxFileLen == 3
\* The long-run files hold runs of MAX_WORD_LEN - 1 + k alphabetic bytes, k \in 0..LongExtra.
LongExtra == 2
\* Most malloc/strdup failures injected into insert_word in one run.
MaxAllocFail == 1
\* Most insert_word calls in one run of the store-level specification.
MaxInserts == 3

\* ------------------------------------------------------- program constants

MAX_WORD_LEN == 100
HASH_TABLE_SIZE == 4096
\* 2^16: one limb of an unsigned long / unsigned int.
LimbBase == 65536
\* '\n'
NEWLINE == 10
EXIT_SUCCESS == 0
EXIT_FAILURE == 1

\* ------------------------------------------------------------ <ctype.h>
\* The program never calls setlocale, so the "C" locale applies.

isspace(c) == c = 32 \/ (c >= 9 /\ c <= 13)

isupper(c) == c >= 65 /\ c <= 90

isalpha(c) == isupper(c) \/ (c >= 97 /\ c <= 122)

tolower(c) == IF isupper(c) THEN c + 32 ELSE c

\* ------------------------------------------------------------ hashtable.c

\* One round of the loop body, hash = ((hash << 5) + hash) + c, on the four
\* limbs of the 64-bit accumulator; the carry out of the top limb is lost
\* (unsigned wraparound).
HashStep(h, c) ==
    LET t1 == h[1] * 32 + h[1] + c
        t2 == h[2] * 32 + h[2] + (t1 \div LimbBase)
        t3 == h[3] * 32 + h[3] + (t2 \div LimbBase)
        t4 == h[4] * 32 + h[4] + (t3 \div LimbBase)
    IN  <<t1 % LimbBase, t2 % LimbBase, t3 % LimbBase, t4 % LimbBase>>

\* The while loop of hash over the bytes word[lo..hi], left to right, from
\* the accumulator h. The range is split in halves and left is tested
\* before it is passed on (a limb is never negative), which only keeps the
\* evaluation shallow.
RECURSIVE HashLoop(_, _, _, _)
HashLoop(word, lo, hi, h) ==
    IF lo > hi
    THEN h
    ELSE IF lo = hi
    THEN HashStep(h, word[lo])
    ELSE LET mid == (lo + hi) \div 2
             left == HashLoop(word, lo, mid, h)
         IN  IF left[1] >= 0 THEN HashLoop(word, mid + 1, hi, left) ELSE left

\* A mutant of hash: the accumulator starts at 0 instead of 5381.
hash_zero_seed(word) ==
    LET h == HashLoop(word, 1, Len(word), <<0, 0, 0, 0>>) IN <<h[1], h[2]>>

\* static unsigned int hash(const char *word): the unsigned long accumulator,
\* converted to the unsigned int return type (its low 32 bits, two limbs).
hash(word) ==
    LET h == HashLoop(word, 1, Len(word), <<5381, 0, 0, 0>>) IN <<h[1], h[2]>>

\* hash(word) % ht->size, for a 32-bit value h given as two limbs.
BucketIndex(h, size) ==
    ((h[2] % size) * (LimbBase % size) + h[1]) % size

\* The store before create_hash_table, or after it failed.
NullTable == [state |-> "null", size |-> 0, table |-> <<>>]

\* create_hash_table(size); ok is whether both allocations succeed.
create_hash_table(size, ok) ==
    IF size < 1 \/ ~ok
    THEN NullTable
    ELSE [state |-> "live", size |-> size, table |-> [i \in 0 .. size - 1 |-> <<>>]]

\* The position in chain of the first node whose word is word, 0 when none
\* (the while loop with strcmp).
FindNode(chain, word) ==
    LET hits == {k \in 1 .. Len(chain) : chain[k].word = word}
    IN  IF hits = {} THEN 0 ELSE CHOOSE k \in hits : \A j \in hits : k <= j

\* Whether insert_word(ht, word) reaches its malloc: the word is new.
ReachesMalloc(ht, word) ==
    /\ ht.state # "null"
    /\ FindNode(ht.table[BucketIndex(hash(word), ht.size)], word) = 0

\* A mutant of insert_word: only the head of the chain is compared.
insert_word_head_only(ht, word, alloc) ==
    IF ht.state = "null"
    THEN ht
    ELSE LET index == BucketIndex(hash(word), ht.size)
             chain == ht.table[index]
         IN  IF chain # <<>> /\ chain[1].word = word
             THEN [ht EXCEPT !.table[index][1].count = @ + 1]
             ELSE IF alloc # "ok"
                  THEN ht
                  ELSE [ht EXCEPT !.table[index] = <<[word |-> word, count |-> 1]>> \o @]

\* A mutant of insert_word: a failed strdup still links the node.
insert_word_links_on_failure(ht, word, alloc) ==
    IF ht.state = "null"
    THEN ht
    ELSE LET index == BucketIndex(hash(word), ht.size)
             k == FindNode(ht.table[index], word)
         IN  IF k # 0
             THEN [ht EXCEPT !.table[index][k].count = @ + 1]
             ELSE IF alloc = "node"
                  THEN ht
                  ELSE [ht EXCEPT !.table[index] =
                            <<[word |-> IF alloc = "ok" THEN word ELSE <<>>,
                               count |-> 1]>> \o @]

\* A mutant of insert_word: the new node is linked at the tail of the chain.
insert_word_appends(ht, word, alloc) ==
    IF ht.state = "null"
    THEN ht
    ELSE LET index == BucketIndex(hash(word), ht.size)
             k == FindNode(ht.table[index], word)
         IN  IF k # 0
             THEN [ht EXCEPT !.table[index][k].count = @ + 1]
             ELSE IF alloc # "ok"
                  THEN ht
                  ELSE [ht EXCEPT !.table[index] = @ \o <<[word |-> word, count |-> 1]>>]

\* insert_word(ht, word). alloc is the outcome of the allocations it may
\* reach: "ok", "node" (malloc of the node fails) or "word" (strdup fails).
insert_word(ht, word, alloc) ==
    IF ht.state = "null"
    THEN ht
    ELSE LET index == BucketIndex(hash(word), ht.size)
             k == FindNode(ht.table[index], word)
         IN  IF k # 0
             THEN [ht EXCEPT !.table[index][k].count = @ + 1]
             ELSE IF alloc # "ok"
                  THEN ht
                  ELSE [ht EXCEPT !.table[index] = <<[word |-> word, count |-> 1]>> \o @]

\* free_hash_table(ht): a no-op on NULL; otherwise every node, the bucket
\* array and the table are released.
free_hash_table(ht) ==
    IF ht.state = "null" THEN ht ELSE [state |-> "freed", size |-> 0, table |-> <<>>]

\* ------------------------------------------------------------- analyzer.c

\* A mutant of CharFreqStep: c is used as a signed char, so a byte above 127
\* indexes outside the table.
CharFreqStepSigned(freq, c) == IF c >= 128 THEN freq ELSE [freq EXCEPT ![c] = @ + 1]

\* stats->char_freq[(unsigned char)c]++
CharFreqStep(freq, c) == [freq EXCEPT ![c % 256] = @ + 1]

\* A mutant of WordCountStep: a word starts at an alphabetic byte only.
WordCountStepAlpha(inw, count, c) ==
    IF isspace(c)
    THEN [in_word |-> 0, word_count |-> count]
    ELSE IF inw = 0 /\ isalpha(c)
         THEN [in_word |-> 1, word_count |-> count + 1]
         ELSE [in_word |-> inw, word_count |-> count]

\* The whitespace-based word counter: lines 48-59 of analyze_file.
WordCountStep(inw, count, c) ==
    IF isspace(c)
    THEN [in_word |-> 0, word_count |-> count]
    ELSE IF inw = 0
         THEN [in_word |-> 1, word_count |-> count + 1]
         ELSE [in_word |-> inw, word_count |-> count]

\* A mutant of TokenStep: the bound check is off by one (<= for <).
TokenStepOffByOne(buf, idx, c) ==
    IF isalpha(c)
    THEN IF idx <= MAX_WORD_LEN - 1
         THEN [buffer |-> [buf EXCEPT ![idx] = tolower(c)], index |-> idx + 1,
               insert |-> FALSE]
         ELSE [buffer |-> buf, index |-> idx, insert |-> FALSE]
    ELSE IF idx > 0
         THEN [buffer |-> [buf EXCEPT ![idx] = 0], index |-> 0, insert |-> TRUE]
         ELSE [buffer |-> buf, index |-> idx, insert |-> FALSE]

\* A mutant of TokenStep: the byte is stored without tolower.
TokenStepNoFold(buf, idx, c) ==
    IF isalpha(c)
    THEN IF idx < MAX_WORD_LEN - 1
         THEN [buffer |-> [buf EXCEPT ![idx] = c], index |-> idx + 1,
               insert |-> FALSE]
         ELSE [buffer |-> buf, index |-> idx, insert |-> FALSE]
    ELSE IF idx > 0
         THEN [buffer |-> [buf EXCEPT ![idx] = 0], index |-> 0, insert |-> TRUE]
         ELSE [buffer |-> buf, index |-> idx, insert |-> FALSE]

\* The word-building logic: lines 63-80 of analyze_file. insert tells that
\* insert_word is called with the buffer just terminated.
TokenStep(buf, idx, c) ==
    IF isalpha(c)
    THEN IF idx < MAX_WORD_LEN - 1
         THEN [buffer |-> [buf EXCEPT ![idx] = tolower(c)], index |-> idx + 1,
               insert |-> FALSE]
         ELSE [buffer |-> buf, index |-> idx, insert |-> FALSE]
    ELSE IF idx > 0
         THEN [buffer |-> [buf EXCEPT ![idx] = 0], index |-> 0, insert |-> TRUE]
         ELSE [buffer |-> buf, index |-> idx, insert |-> FALSE]

\* A mutant of FinalToken: the buffer is not flushed at end of file.
FinalTokenLost(buf, idx) == [buffer |-> buf, insert |-> FALSE]

\* The final word after the loop: lines 85-89 of analyze_file.
FinalToken(buf, idx) ==
    IF idx > 0
    THEN [buffer |-> [buf EXCEPT ![idx] = 0], insert |-> TRUE]
    ELSE [buffer |-> buf, insert |-> FALSE]

\* The C string held in the array buf: its bytes up to the first NUL.
CString(buf) ==
    LET nuls == {i \in DOMAIN buf : buf[i] = 0}
        n == IF nuls = {}
             THEN MAX_WORD_LEN
             ELSE CHOOSE i \in nuls : \A j \in nuls : i <= j
    IN  [i \in 1 .. n |-> buf[i - 1]]

\* ------------------------------------------------------------------ state

VARIABLES
    pc,                 \* position in main / analyze_file, or "api" in SpecStore
    argv,               \* main's argument vector, argv[0] first
    options,            \* AnalysisOptions
    input_filename,     \* main's input_filename ("NULL" when unset)
    word_counts,        \* the HashTable stats.word_counts points to
    char_count,         \* stats.char_count
    word_count,         \* stats.word_count
    line_count,         \* stats.line_count
    char_freq,          \* main_char_freq[256]
    file,               \* the bytes of the opened input file
    pos,                \* how many of them fgetc has returned
    word_buffer,        \* analyze_file's word_buffer[MAX_WORD_LEN]
    word_buffer_index,  \* analyze_file's word_buffer_index
    in_word,            \* analyze_file's in_word
    ret,                \* analyze_file's return value: <<>>, then <<0>> or <<-1>>
    exit_status,        \* main's return value: <<>> while it runs, then <<status>>
    reports,            \* history: calls of print_report
    frees,              \* history: calls of free_hash_table that released a store
    use_after_free,     \* history: the store was read or written after its release
    inserts,            \* history: the words passed to insert_word, in call order
    dropped             \* history: insert_word calls whose allocation failed

vars == <<pc, argv, options, input_filename, word_counts, char_count, word_count,
          line_count, char_freq, file, pos, word_buffer, word_buffer_index, in_word,
          ret, exit_status, reports, frees, use_after_free, inserts, dropped>>

mainVars == <<argv, options, input_filename>>
statsVars == <<char_count, word_count, line_count, char_freq>>
scanVars == <<file, pos, word_buffer, word_buffer_index, in_word>>
historyVars == <<reports, frees, use_after_free, inserts, dropped>>

\* ----------------------------------------------------------------- inputs

\* 'A', 'a', 'b', ' ', ',', '\n'
FileBytes == {65, 97, 98, 32, 44, 10}

\* "Cat cat CAT.\n"
CatFile == <<67, 97, 116, 32, 99, 97, 116, 32, 67, 65, 84, 46, 10>>

\* "Hello,"
HelloFile == <<72, 101, 108, 108, 111, 44>>

\* "a\tb\xFFc": a tab, and a byte above 127
TabFile == <<97, 9, 98, 255, 99>>

\* n alphabetic bytes "AbAb..."
LongRun(n) == [i \in 1 .. n |-> IF i % 2 = 1 THEN 65 ELSE 98]

LongFiles ==
    {LongRun(MAX_WORD_LEN - 1 + k) \o tail :
        k \in 0 .. LongExtra, tail \in {<<>>, <<44, 97>>, <<10>>}}

Files ==
    UNION {[1 .. n -> FileBytes] : n \in 0 .. MaxFileLen}
        \cup {CatFile, HelloFile, TabFile} \cup LongFiles

ArgvSet ==
    { <<"prog">>,
      <<"prog", "in.txt">>,
      <<"prog", "-w", "-o", "out.txt", "in.txt">>,
      <<"prog", "--freq", "in.txt", "other.txt">>,
      <<"prog", "in.txt", "-o">>,
      <<"prog", "-x", "in.txt">>,
      <<"prog", "-l">> }

\* The arguments whose first character is '-'.
DashArgs == {"-c", "-w", "-l", "--freq", "-o", "-x"}

AllocOutcomes == {"ok", "node", "word"}

\* ------------------------------------------------------------------ main.c

NoOptions ==
    [show_overall_stats |-> FALSE, show_char_freq |-> FALSE,
     show_word_freq |-> FALSE, output_filename |-> "NULL"]

\* The argument loop of main, from argv[i] on (argv[0] is av[1]). st holds
\* options, any_option_set, input_filename and whether main returned
\* EXIT_FAILURE from inside the loop.
RECURSIVE ParseArgs(_, _, _)
ParseArgs(av, i, st) ==
    IF i > Len(av)
    THEN st
    ELSE LET arg == av[i]
         IN  IF arg \in {"-c", "-w", "-l"}
             THEN ParseArgs(av, i + 1,
                      [st EXCEPT !.options.show_overall_stats = TRUE, !.any = TRUE])
             ELSE IF arg = "--freq"
             THEN ParseArgs(av, i + 1,
                      [st EXCEPT !.options.show_char_freq = TRUE,
                                 !.options.show_word_freq = TRUE, !.any = TRUE])
             ELSE IF arg = "-o"
             THEN IF i + 1 <= Len(av)
                  THEN ParseArgs(av, i + 2,
                           [st EXCEPT !.options.output_filename = av[i + 1]])
                  ELSE [st EXCEPT !.failed = TRUE]
             ELSE IF arg \in DashArgs
             THEN [st EXCEPT !.failed = TRUE]
             ELSE IF st.input # "NULL"
             THEN [st EXCEPT !.failed = TRUE]
             ELSE ParseArgs(av, i + 1, [st EXCEPT !.input = arg])

\* Section 1 of main: argument parsing and the default options.
MainParse ==
    /\ pc = "start"
    /\ LET st == IF Len(argv) < 2
                 THEN [options |-> NoOptions, any |-> FALSE, input |-> "NULL",
                       failed |-> TRUE]
                 ELSE ParseArgs(argv, 2,
                          [options |-> NoOptions, any |-> FALSE, input |-> "NULL",
                           failed |-> FALSE])
       IN  IF st.failed \/ st.input = "NULL"
           THEN /\ pc' = "exit"
                /\ exit_status' = <<EXIT_FAILURE>>
                /\ options' = st.options
                /\ input_filename' = st.input
           ELSE /\ pc' = "setup"
                /\ exit_status' = exit_status
                /\ input_filename' = st.input
                /\ options' = IF st.any
                              THEN st.options
                              ELSE [st.options EXCEPT !.show_overall_stats = TRUE,
                                                      !.show_char_freq = TRUE,
                                                      !.show_word_freq = TRUE]
    /\ UNCHANGED <<argv, word_counts, ret>>
    /\ UNCHANGED <<statsVars, scanVars, historyVars>>

\* Section 2 of main: create_hash_table(HASH_TABLE_SIZE), the zeroed
\* frequency table and AppStats.
MainSetup ==
    /\ pc = "setup"
    /\ \E ok \in BOOLEAN :
          LET ht == create_hash_table(HASH_TABLE_SIZE, ok)
          IN  /\ word_counts' = ht
              /\ IF ht.state = "null"
                 THEN pc' = "exit" /\ exit_status' = <<EXIT_FAILURE>>
                 ELSE pc' = "analyze" /\ exit_status' = exit_status
    /\ char_count' = 0
    /\ word_count' = 0
    /\ line_count' = 0
    /\ char_freq' = [b \in 0 .. 255 |-> 0]
    /\ UNCHANGED <<mainVars, scanVars, historyVars, ret>>

\* analyze_file, lines 20-27: fopen fails, perror, return -1.
AnalyzeOpenFail ==
    /\ pc = "analyze"
    /\ ret' = <<-1>>
    /\ pc' = "analyzed"
    /\ UNCHANGED <<mainVars, word_counts, statsVars, scanVars, historyVars, exit_status>>

\* analyze_file, lines 20-31: fopen succeeds on a file holding the bytes f;
\* the locals are set up. word_buffer is not initialised: no element is read
\* before it is written, so its starting content is fixed here.
AnalyzeOpen ==
    /\ pc = "analyze"
    /\ \E f \in Files : file' = f
    /\ pos' = 0
    /\ word_buffer' = [i \in 0 .. MAX_WORD_LEN - 1 |-> 0]
    /\ word_buffer_index' = 0
    /\ in_word' = 0
    /\ pc' = "reading"
    /\ UNCHANGED <<mainVars, word_counts, statsVars, historyVars, ret, exit_status>>

\* A call insert_word(stats->word_counts, word) and its history. An
\* allocation fails only where insert_word reaches one.
CallInsert(word, alloc) ==
    LET fails == alloc # "ok" /\ ReachesMalloc(word_counts, word)
    IN  /\ alloc # "ok" => fails /\ dropped < MaxAllocFail
        /\ word_counts' = insert_word(word_counts, word, alloc)
        /\ inserts' = Append(inserts, word)
        /\ dropped' = IF fails THEN dropped + 1 ELSE dropped
        /\ use_after_free' = (use_after_free \/ word_counts.state = "freed")

\* One iteration of the while loop of analyze_file, lines 34-81: fgetc
\* returns the next byte c.
ReadByte ==
    /\ pc = "reading"
    /\ pos < Len(file)
    /\ LET c == file[pos + 1]
           w == WordCountStep(in_word, word_count, c)
           t == TokenStep(word_buffer, word_buffer_index, c)
       IN  /\ pos' = pos + 1
           /\ char_count' = char_count + 1
           /\ line_count' = IF c = NEWLINE THEN line_count + 1 ELSE line_count
           /\ char_freq' = CharFreqStep(char_freq, c)
           /\ in_word' = w.in_word
           /\ word_count' = w.word_count
           /\ word_buffer' = t.buffer
           /\ word_buffer_index' = t.index
           /\ IF t.insert
              THEN \E alloc \in AllocOutcomes : CallInsert(CString(t.buffer), alloc)
              ELSE UNCHANGED <<word_counts, inserts, dropped, use_after_free>>
    /\ UNCHANGED <<mainVars, file, pc, ret, exit_status, reports, frees>>

\* fgetc returns EOF: lines 83-92 of analyze_file, the final word, fclose
\* and return 0.
AnalyzeEOF ==
    /\ pc = "reading"
    /\ pos = Len(file)
    /\ LET t == FinalToken(word_buffer, word_buffer_index)
       IN  /\ word_buffer' = t.buffer
           /\ IF t.insert
              THEN \E alloc \in AllocOutcomes : CallInsert(CString(t.buffer), alloc)
              ELSE UNCHANGED <<word_counts, inserts, dropped, use_after_free>>
    /\ ret' = <<0>>
    /\ pc' = "analyzed"
    /\ UNCHANGED <<mainVars, statsVars, file, pos, word_buffer_index, in_word,
                   exit_status, reports, frees>>

\* A call free_hash_table(stats.word_counts) of main and its history.
CallFree ==
    /\ word_counts' = free_hash_table(word_counts)
    /\ frees' = IF word_counts.state = "null" THEN frees ELSE frees + 1
    /\ use_after_free' = (use_after_free \/ word_counts.state = "freed")

\* A mutant of MainAnalysisFailed: the error path returns without cleanup.
MainAnalysisFailedLeaks ==
    /\ pc = "analyzed"
    /\ ret # <<0>>
    /\ pc' = "exit"
    /\ exit_status' = <<EXIT_FAILURE>>
    /\ UNCHANGED <<mainVars, statsVars, scanVars, ret, reports, inserts, dropped,
                   word_counts, frees, use_after_free>>

\* A mutant of MainAnalysisFailed: the error path falls through to the report.
MainAnalysisFailedFallsThrough ==
    /\ pc = "analyzed"
    /\ ret # <<0>>
    /\ CallFree
    /\ pc' = "report"
    /\ UNCHANGED <<mainVars, statsVars, scanVars, ret, reports, inserts, dropped,
                   exit_status>>

\* main, lines 128-133: analyze_file failed; cleanup and EXIT_FAILURE.
MainAnalysisFailed ==
    /\ pc = "analyzed"
    /\ ret # <<0>>
    /\ CallFree
    /\ pc' = "exit"
    /\ exit_status' = <<EXIT_FAILURE>>
    /\ UNCHANGED <<mainVars, statsVars, scanVars, ret, reports, inserts, dropped>>

\* main, lines 136-146: the output stream is stdout, or the output file,
\* which fopen opened for writing.
MainOpenOutput ==
    /\ pc = "analyzed"
    /\ ret = <<0>>
    /\ pc' = "report"
    /\ UNCHANGED <<mainVars, word_counts, statsVars, scanVars, historyVars, ret,
                   exit_status>>

\* main, lines 139-145: the output file cannot be opened; cleanup and
\* EXIT_FAILURE.
MainOpenOutputFail ==
    /\ pc = "analyzed"
    /\ ret = <<0>>
    /\ options.output_filename # "NULL"
    /\ CallFree
    /\ pc' = "exit"
    /\ exit_status' = <<EXIT_FAILURE>>
    /\ UNCHANGED <<mainVars, statsVars, scanVars, ret, reports, inserts, dropped>>

\* main, line 148: print_report; it walks the store when the word
\* frequencies are shown.
MainReport ==
    /\ pc = "report"
    /\ reports' = reports + 1
    /\ use_after_free' =
          (use_after_free \/ (options.show_word_freq /\ word_counts.state = "freed"))
    /\ pc' = "cleanup"
    /\ UNCHANGED <<mainVars, word_counts, statsVars, scanVars, ret, exit_status,
                   frees, inserts, dropped>>

\* main, lines 150-158: fclose, free_hash_table and EXIT_SUCCESS.
MainCleanup ==
    /\ pc = "cleanup"
    /\ CallFree
    /\ pc' = "exit"
    /\ exit_status' = <<EXIT_SUCCESS>>
    /\ UNCHANGED <<mainVars, statsVars, scanVars, ret, reports, inserts, dropped>>

\* ----------------------------------------------------- the whole program

NoFile == <<>>

Init ==
    /\ pc = "start"
    /\ argv \in ArgvSet
    /\ options = NoOptions
    /\ input_filename = "NULL"
    /\ word_counts = NullTable
    /\ char_count = 0
    /\ word_count = 0
    /\ line_count = 0
    /\ char_freq = [b \in 0 .. 255 |-> 0]
    /\ file = NoFile
    /\ pos = 0
    /\ word_buffer = [i \in 0 .. MAX_WORD_LEN - 1 |-> 0]
    /\ word_buffer_index = 0
    /\ in_word = 0
    /\ ret = <<>>
    /\ exit_status = <<>>
    /\ reports = 0
    /\ frees = 0
    /\ use_after_free = FALSE
    /\ inserts = <<>>
    /\ dropped = 0

Next ==
    \/ MainParse
    \/ MainSetup
    \/ AnalyzeOpenFail
    \/ AnalyzeOpen
    \/ ReadByte
    \/ AnalyzeEOF
    \/ MainAnalysisFailed
    \/ MainOpenOutput
    \/ MainOpenOutputFail
    \/ MainReport
    \/ MainCleanup

Spec == Init /\ [][Next]_vars

\* ------------------------------------------------- the word store alone
\* A client of hashtable.h: create_hash_table, then insert_word calls, then
\* free_hash_table.

\* "a", "b", "ab", "abcd" and twelve times 'a'
StoreWords ==
    { <<97>>, <<98>>, <<97, 98>>, <<97, 98, 99, 100>>, [i \in 1 .. 12 |-> 97] }

StoreSizes == {0, 1, 2, 3, HASH_TABLE_SIZE}

StoreCreate ==
    /\ pc = "api"
    /\ word_counts.state = "null"
    /\ inserts = <<>>
    /\ \E size \in StoreSizes, ok \in BOOLEAN :
          word_counts' = create_hash_table(size, ok)
    /\ UNCHANGED <<pc, mainVars, statsVars, scanVars, historyVars, ret, exit_status>>

StoreInsert ==
    /\ pc = "api"
    /\ word_counts.state = "live"
    /\ Len(inserts) < MaxInserts
    /\ \E word \in StoreWords, alloc \in AllocOutcomes : CallInsert(word, alloc)
    /\ UNCHANGED <<pc, mainVars, statsVars, scanVars, ret, exit_status, reports, frees>>

StoreFree ==
    /\ pc = "api"
    /\ word_counts.state = "live"
    /\ CallFree
    /\ pc' = "api_done"
    /\ UNCHANGED <<mainVars, statsVars, scanVars, ret, exit_status, reports, inserts,
                   dropped>>

InitStore ==
    /\ pc = "api"
    /\ argv = <<"prog">>
    /\ options = NoOptions
    /\ input_filename = "NULL"
    /\ word_counts = NullTable
    /\ char_count = 0
    /\ word_count = 0
    /\ line_count = 0
    /\ char_freq = [b \in 0 .. 255 |-> 0]
    /\ file = NoFile
    /\ pos = 0
    /\ word_buffer = [i \in 0 .. MAX_WORD_LEN - 1 |-> 0]
    /\ word_buffer_index = 0
    /\ in_word = 0
    /\ ret = <<>>
    /\ exit_status = <<>>
    /\ reports = 0
    /\ frees = 0
    /\ use_after_free = FALSE
    /\ inserts = <<>>
    /\ dropped = 0

NextStore ==
    \/ StoreCreate
    \/ StoreInsert
    \/ StoreFree

SpecStore == InitStore /\ [][NextStore]_vars

\* ------------------------------------------------------------ the claims
\* What the claims speak of, stated on the input file itself.

AlphaBytes == (65 .. 90) \cup (97 .. 122)

WhitespaceBytes == {9, 10, 11, 12, 13, 32}

Lowercase(b) == IF b \in 65 .. 90 THEN b + 32 ELSE b

\* The positions of f where a maximal run of bytes of the set S starts.
RunStarts(f, S) ==
    {i \in 1 .. Len(f) : f[i] \in S /\ (i = 1 \/ f[i - 1] \notin S)}

\* The last position of the maximal run of bytes of S that starts at i.
RunEnd(f, S, i) ==
    CHOOSE j \in i .. Len(f) :
        /\ \A k \in i .. j : f[k] \in S
        /\ j = Len(f) \/ f[j + 1] \notin S

\* The start of the k-th maximal run of bytes of S, counted from 1.
KthRunStart(f, S, k) ==
    CHOOSE i \in RunStarts(f, S) :
        Cardinality({j \in RunStarts(f, S) : j <= i}) = k

\* The token of the alphabetic run starting at i: its first MAX_WORD_LEN - 1
\* bytes at most, in lowercase.
TokenAt(f, i) ==
    LET j == RunEnd(f, AlphaBytes, i)
        n == IF j - i + 1 > MAX_WORD_LEN - 1 THEN MAX_WORD_LEN - 1 ELSE j - i + 1
    IN  [k \in 1 .. n |-> Lowercase(f[i + k - 1])]

AlphaRuns(f) == RunStarts(f, AlphaBytes)

EndsInAlpha(f) == f # <<>> /\ f[Len(f)] \in AlphaBytes

\* The sum of the slots lo..hi of freq.
RECURSIVE SumSlots(_, _, _)
SumSlots(freq, lo, hi) ==
    IF lo = hi
    THEN freq[lo]
    ELSE LET mid == (lo + hi) \div 2
         IN  SumSlots(freq, lo, mid) + SumSlots(freq, mid + 1, hi)

\* The places <<bucket, position in chain>> of the entries of the store.
EntryPlaces(ht) ==
    LET used == {i \in DOMAIN ht.table : ht.table[i] # <<>>}
    IN  UNION {{<<i, k>> : k \in 1 .. Len(ht.table[i])} : i \in used}

Returned == pc = "analyzed" /\ ret = <<0>>

\* C1: at every point of the analysis the 256 slots of the frequency table
\* sum to char_count, char_count is the number of bytes read, and the slot of
\* each byte value holds the number of bytes of that value read so far.
C1_FreqSumIsCharCount ==
    /\ SumSlots(char_freq, 0, 255) = char_count
    /\ char_count = pos
    /\ \A i \in 1 .. pos :
          char_freq[file[i]] = Cardinality({j \in 1 .. pos : file[j] = file[i]})

\* C1 witness: "a\tb\xFFc" was read to its end, five bytes in five slots.
C1_Witness ==
    /\ Returned
    /\ file = TabFile
    /\ char_count = 5
    /\ char_freq[255] = 1

\* C2: in a store created empty, with no allocation failure, each word has
\* at most one entry, an entry exactly when insert_word was called with it,
\* and its count is the number of those calls.
C2_OneEntryPerWordCountsCalls ==
    (pc = "api" /\ word_counts.state = "live" /\ dropped = 0) =>
        LET places == EntryPlaces(word_counts)
            calls(w) == Cardinality({n \in 1 .. Len(inserts) : inserts[n] = w})
        IN  /\ \A p \in places : word_counts.table[p[1]][p[2]].word \in StoreWords
            /\ \A w \in StoreWords :
                  LET at == {p \in places : word_counts.table[p[1]][p[2]].word = w}
                  IN  /\ Cardinality(at) = (IF calls(w) > 0 THEN 1 ELSE 0)
                      /\ \A p \in at : word_counts.table[p[1]][p[2]].count = calls(w)

\* C2 witness: "a" inserted twice and "b" once into a one-bucket store: two
\* entries in one chain, one of count 2.
C2_Witness ==
    /\ pc = "api"
    /\ word_counts.state = "live"
    /\ word_counts.size = 1
    /\ dropped = 0
    /\ inserts = <<<<97>>, <<98>>, <<97>>>>
    /\ Len(word_counts.table[0]) = 2
    /\ \E k \in 1 .. 2 : word_counts.table[0][k] = [word |-> <<97>>, count |-> 2]

\* C3: once analyze_file has returned -1, the counters and every slot of the
\* frequency table are as main set them before the call (zero), the store is
\* as create_hash_table left it until main releases it, no word was
\* inserted, and no report is ever printed.
C3_OpenFailureTouchesNothing ==
    (ret = <<-1>>) =>
        /\ char_count = 0 /\ word_count = 0 /\ line_count = 0
        /\ \A b \in 0 .. 255 : char_freq[b] = 0
        /\ inserts = <<>>
        /\ pc = "analyzed" =>
              /\ word_counts.state = "live"
              /\ word_counts.size = HASH_TABLE_SIZE
              /\ \A i \in DOMAIN word_counts.table : word_counts.table[i] = <<>>
        /\ reports = 0

\* C3 witness: main has exited after a failed analysis.
C3_Witness ==
    /\ ret = <<-1>>
    /\ pc = "exit"
    /\ exit_status = <<EXIT_FAILURE>>
    /\ reports = 0

\* C4: when the last byte has been read, insert_word has been called once
\* per alphabetic run that ended before it; when analyze_file returns, once
\* per alphabetic run of the file. So a file ending in an alphabetic byte
\* gets exactly one call at end of stream, with the token of its final run,
\* and any other file gets none.
C4_FinalTokenInsertedOnce ==
    /\ (pc = "reading" /\ pos = Len(file)) =>
          Len(inserts) = Cardinality(AlphaRuns(file)) - (IF EndsInAlpha(file) THEN 1 ELSE 0)
    /\ Returned =>
          /\ Len(inserts) = Cardinality(AlphaRuns(file))
          /\ EndsInAlpha(file) =>
                inserts[Len(inserts)] =
                    TokenAt(file, KthRunStart(file, AlphaBytes, Len(inserts)))

\* C4 witness: "a,a" ends inside its second token.
C4_Witness ==
    /\ Returned
    /\ file = <<97, 44, 97>>
    /\ inserts = <<<<97>>, <<97>>>>

\* C5: word_buffer_index never exceeds MAX_WORD_LEN - 1, and at return there
\* is one insert_word call per alphabetic run, the k-th call for the k-th
\* run; for a run of more than 99 bytes its word is the lowercase form of
\* the run's first 99 bytes.
C5_LongRunTruncatedOnce ==
    /\ word_buffer_index <= MAX_WORD_LEN - 1
    /\ Returned =>
          /\ Len(inserts) = Cardinality(AlphaRuns(file))
          /\ \A k \in 1 .. Len(inserts) :
                LET i == KthRunStart(file, AlphaBytes, k)
                IN  RunEnd(file, AlphaBytes, i) - i + 1 > MAX_WORD_LEN - 1 =>
                        /\ Len(inserts[k]) = MAX_WORD_LEN - 1
                        /\ \A n \in 1 .. MAX_WORD_LEN - 1 :
                              inserts[k][n] = Lowercase(file[i + n - 1])

\* C5 witness: a run of 101 letters, then ",a": two calls, the first with 99
\* bytes.
C5_Witness ==
    /\ Returned
    /\ file = LongRun(MAX_WORD_LEN + 1) \o <<44, 97>>
    /\ Len(inserts) = 2
    /\ Len(inserts[1]) = MAX_WORD_LEN - 1
    /\ inserts[2] = <<97>>

\* The entries of the store, as a set of [word, count] records.
Entries(ht) == {ht.table[p[1]][p[2]] : p \in EntryPlaces(ht)}

\* The tokens of f (its alphabetic runs, lowercased), and how often t occurs.
Tokens(f) == {TokenAt(f, i) : i \in AlphaRuns(f)}

Occurrences(f, t) == Cardinality({i \in AlphaRuns(f) : TokenAt(f, i) = t})

HasLongRun(f) ==
    \E i \in AlphaRuns(f) : RunEnd(f, AlphaBytes, i) - i + 1 > MAX_WORD_LEN - 1

\* C6: after the analysis of a file with no alphabetic run longer than 99
\* bytes and no allocation failure, the store has exactly one entry per
\* token of the file, counting the token's occurrences; stored words hold
\* lowercase letters only, and "Cat cat CAT.\n" yields exactly {"cat": 3}.
C6_StoreIsTokenCounts ==
    (Returned /\ dropped = 0 /\ ~HasLongRun(file)) =>
        LET places == EntryPlaces(word_counts)
            entries == {word_counts.table[p[1]][p[2]] : p \in places}
        IN  /\ Cardinality(places) = Cardinality(Tokens(file))
            /\ {e.word : e \in entries} = Tokens(file)
            /\ \A e \in entries :
                  /\ e.count = Occurrences(file, e.word)
                  /\ \A n \in 1 .. Len(e.word) : e.word[n] \in 97 .. 122
            /\ file = CatFile => entries = {[word |-> <<99, 97, 116>>, count |-> 3]}

\* C6 witness: "Cat cat CAT.\n" was analysed without an allocation failure.
C6_Witness ==
    /\ Returned
    /\ dropped = 0
    /\ file = CatFile
    /\ char_count = 13 /\ word_count = 3 /\ line_count = 1

\* C7: throughout the analysis word_count is the number of maximal runs of
\* non-whitespace bytes begun in the bytes read so far and in_word tells
\* whether the last byte read is non-whitespace; insert_word is called at
\* most once per alphabetic run begun, whatever word_count is; "Hello,"
\* gives word_count 1 and the single insertion "hello".
C7_WordCountIsNonWhitespaceRuns ==
    (pc \in {"reading", "analyzed"} /\ ret # <<-1>>) =>
        LET read == SubSeq(file, 1, pos)
        IN  /\ word_count = Cardinality(RunStarts(read, (0 .. 255) \ WhitespaceBytes))
            /\ in_word = (IF pos > 0 /\ file[pos] \notin WhitespaceBytes THEN 1 ELSE 0)
            /\ Len(inserts) <= Cardinality(AlphaRuns(read))
            /\ (pc = "analyzed" /\ file = HelloFile) =>
                  /\ word_count = 1
                  /\ inserts = << <<104, 101, 108, 108, 111>> >>

\* C7 witness: "Hello," was analysed: one word counted, "hello" stored.
C7_Witness ==
    /\ Returned
    /\ file = HelloFile
    /\ word_count = 1
    /\ Entries(word_counts) = {[word |-> <<104, 101, 108, 108, 111>>, count |-> 1]}

\* The djb2 accumulator after the first n bytes of word, kept to 32 bits
\* (two limbs) at every step.
RECURSIVE Djb2Low32(_, _)
Djb2Low32(word, n) ==
    IF n = 0
    THEN <<5381, 0>>
    ELSE LET h == Djb2Low32(word, n - 1)
             t1 == h[1] * 33 + word[n]
             t2 == h[2] * 33 + (t1 \div 65536)
         IN  <<t1 % 65536, t2 % 65536>>

\* The djb2 accumulator after the first n bytes of word, in unsigned 64-bit
\* arithmetic (four limbs).
RECURSIVE Djb2Wide64(_, _)
Djb2Wide64(word, n) ==
    IF n = 0
    THEN <<5381, 0, 0, 0>>
    ELSE LET h == Djb2Wide64(word, n - 1)
             t1 == h[1] * 33 + word[n]
             t2 == h[2] * 33 + (t1 \div 65536)
             t3 == h[3] * 33 + (t2 \div 65536)
             t4 == h[4] * 33 + (t3 \div 65536)
         IN  <<t1 % 65536, t2 % 65536, t3 % 65536, t4 % 65536>>

\* The number whose limbs from the k-th on are h, modulo m.
RECURSIVE LimbsMod(_, _, _)
LimbsMod(h, k, m) ==
    IF k > Len(h) THEN 0 ELSE (LimbsMod(h, k + 1, m) * (65536 % m) + h[k]) % m

\* C8, as the claim states it: every entry lies in the bucket given by the
\* 64-bit djb2 accumulator modulo the bucket count.
C8_BucketIsHash64ModSize ==
    (pc = "api" /\ word_counts.state = "live") =>
        \A p \in EntryPlaces(word_counts) :
            LET w == word_counts.table[p[1]][p[2]].word
            IN  p[1] = LimbsMod(Djb2Wide64(w, Len(w)), 1, word_counts.size)

\* C8, amended: every entry lies in the bucket given by the low 32 bits of
\* the djb2 accumulator modulo the bucket count; when the bucket count
\* divides 2^16 (so also 2^32) that is the 64-bit accumulator modulo the
\* bucket count.
C8_BucketIsHash32ModSize ==
    (pc = "api" /\ word_counts.state = "live") =>
        \A p \in EntryPlaces(word_counts) :
            LET w == word_counts.table[p[1]][p[2]].word
            IN  /\ p[1] = LimbsMod(Djb2Low32(w, Len(w)), 1, word_counts.size)
                /\ 65536 % word_counts.size = 0 =>
                      p[1] = LimbsMod(Djb2Wide64(w, Len(w)), 1, word_counts.size)

\* C8 witness: in a store of 3 buckets "abcd" (accumulator 6385036879, above
\* 2^32) lies in bucket 0 and the twelve-letter word (accumulator wrapped at
\* 2^64) in bucket 2.
C8_Witness ==
    /\ pc = "api"
    /\ word_counts.state = "live"
    /\ word_counts.size = 3
    /\ \E k \in 1 .. Len(word_counts.table[0]) :
          word_counts.table[0][k].word = <<97, 98, 99, 100>>
    /\ \E k \in 1 .. Len(word_counts.table[2]) :
          word_counts.table[2][k].word = [i \in 1 .. 12 |-> 97]

\* C9: the store is never used after free_hash_table released it, it is
\* released at most once, and when main has exited it has been released
\* exactly once if create_hash_table had succeeded (and never otherwise).
C9_StoreFreedOnceOnEveryPath ==
    /\ ~use_after_free
    /\ frees <= 1
    /\ frees = 1 <=> word_counts.state = "freed"
    /\ pc = "exit" =>
          \/ word_counts.state = "freed" /\ frees = 1
          \/ word_counts.state = "null" /\ frees = 0 /\ ret = <<>>

\* C9 witness: main has exited on the output-file-open-failure path, after
\* a successful analysis and without a report, the store released once.
C9_Witness ==
    /\ pc = "exit"
    /\ ret = <<0>>
    /\ reports = 0
    /\ exit_status = <<EXIT_FAILURE>>
    /\ frees = 1
    /\ inserts # <<>>

\* C10: a step in which an allocation of insert_word fails leaves the store
\* unchanged and the analysis running (or returning 0 at end of file); and
\* when analyze_file returns after such a failure it returns 0 with the
\* whole file read and the counters and the frequency table equal to what
\* the file alone determines.
C10_DroppedInsertionIsSilent ==
    /\ [][dropped' > dropped =>
              /\ word_counts' = word_counts
              /\ pc' = "reading" \/ (pc' = "analyzed" /\ ret' = <<0>>)]_vars
    /\ []((pc = "analyzed" /\ dropped > 0) =>
              /\ ret = <<0>>
              /\ pos = Len(file)
              /\ char_count = Len(file)
              /\ line_count = Cardinality({i \in 1 .. Len(file) : file[i] = 10})
              /\ word_count =
                    Cardinality(RunStarts(file, (0 .. 255) \ WhitespaceBytes))
              /\ \A b \in 0 .. 255 :
                    char_freq[b] = Cardinality({i \in 1 .. Len(file) : file[i] = b}))

\* C10 witness: "a b" was analysed, the insertion of "a" was dropped and
\* that of "b" made.
C10_Witness ==
    /\ Returned
    /\ file = <<97, 32, 98>>
    /\ dropped = 1
    /\ inserts = <<<<97>>, <<98>>>>
    /\ Entries(word_counts) = {[word |-> <<98>>, count |-> 1]}
    /\ char_count = 3 /\ word_count = 2

\* A step that is one insert_word call on a live store, and the word passed.
InsertCall == word_counts.state = "live" /\ Len(inserts') = Len(inserts) + 1

CalledWord == inserts'[Len(inserts')]

\* Whether the store holds an entry for the word w.
Holds(ht, w) == \E p \in EntryPlaces(ht) : ht.table[p[1]][p[2]].word = w

\* The step links a new entry (w, 1) at the head of one chain and changes
\* nothing else of the store.
PrependsNew(w) ==
    /\ word_counts'.state = "live" /\ word_counts'.size = word_counts.size
    /\ \E i \in DOMAIN word_counts.table :
          /\ word_counts'.table[i] = <<[word |-> w, count |-> 1]>> \o word_counts.table[i]
          /\ \A j \in DOMAIN word_counts.table :
                j # i => word_counts'.table[j] = word_counts.table[j]

\* The step adds one to the count of the entry of w and changes nothing else
\* of the store: every chain keeps its length, its words and their order.
IncrementsOnly(w) ==
    /\ word_counts'.state = "live" /\ word_counts'.size = word_counts.size
    /\ \E p \in EntryPlaces(word_counts) :
          /\ word_counts.table[p[1]][p[2]].word = w
          /\ word_counts'.table =
                [word_counts.table EXCEPT ![p[1]][p[2]].count = @ + 1]

\* The call number of the first insert_word call with the word w.
FirstCall(w) ==
    CHOOSE n \in 1 .. Len(inserts) :
        inserts[n] = w /\ \A m \in 1 .. n - 1 : inserts[m] # w

\* C11, as the claim states it: every insert_word call with a word not in
\* the store links the new entry, count 1, at the head of its chain, and
\* every call with a word in the store only adds one to that entry's count.
C11_EveryNewWordIsPrepended ==
    [][InsertCall =>
          IF Holds(word_counts, CalledWord)
          THEN IncrementsOnly(CalledWord)
          ELSE PrependsNew(CalledWord)]_vars

\* C11, amended: an insert_word call with a word not in the store, whose
\* allocations succeed, links the new entry, count 1, at the head of its
\* chain and changes nothing else (a call whose allocation fails changes
\* nothing at all); a call with a word in the store only adds one to that
\* entry's count; and while no allocation has failed each chain lists its
\* words most recently first inserted.
C11_PrependOrIncrement ==
    /\ [][InsertCall =>
             IF Holds(word_counts, CalledWord)
             THEN IncrementsOnly(CalledWord)
             ELSE IF dropped' = dropped
                  THEN PrependsNew(CalledWord)
                  ELSE word_counts' = word_counts]_vars
    /\ []((pc = "api" /\ word_counts.state = "live" /\ dropped = 0) =>
             \A i \in DOMAIN word_counts.table :
                 \A k, l \in 1 .. Len(word_counts.table[i]) :
                     k < l => FirstCall(word_counts.table[i][k].word)
                                  > FirstCall(word_counts.table[i][l].word))

\* C11 witness: "a", "b", "a" inserted into a one-bucket store: "b", the
\* later word, heads the chain, and "a" kept its place with count 2.
C11_Witness ==
    /\ pc = "api"
    /\ word_counts.state = "live"
    /\ word_counts.size = 1
    /\ dropped = 0
    /\ inserts = <<<<97>>, <<98>>, <<97>>>>
    /\ word_counts.table[0] =
          <<[word |-> <<98>>, count |-> 1], [word |-> <<97>>, count |-> 2]>>

====
